---- MODULE Spec2Model ----
(***************************************************************************)
(* The hierarchical parameter state store of raddar                        *)
(* (src/src/core/state_dict.rs): a tree of StateDictData nodes, each with  *)
(* a name, a weak parent back-reference and a map from local names to      *)
(* either a shared tensor cell or a nested StateDict.                      *)
(*                                                                         *)
(* A String is a sequence of one-character strings; a flat map is a        *)
(* function from such keys to cell identities; the heap `nodes` is a       *)
(* sequence of StateDictData records indexed by node identity.             *)
(***************************************************************************)
EXTENDS Integers, Sequences, FiniteSets, TLC

VARIABLES
    nodes,    \* the heap: nodes[n] is the StateDictData of node n
    cells,    \* cells[c]: the content of the tensor behind Arc<Mutex<Tensor>> c
    pc,       \* position of the calling program
    roots,    \* handles returned by from_map / new, in order of creation
    args,     \* args[i]: the flat map roots[i] was built from
    cur,      \* a handle obtained by chained child_state_dict lookups
    trail,    \* the names followed from roots[1] to reach cur
    result,   \* what the last query returned
    frames,   \* the call stack of a running load
    before,   \* cells as they were when load was called
    calls,    \* number of constructing calls (new, from_map, append_child) made
    requires_grad, \* requires_grad[c]: the flag of the tensor in cell c
    threads,  \* threads[t]: what thread t is running and where it stands
    locks,    \* the Mutex of each cell: its owner and whether it is poisoned
    iterator, \* a DatasetIterator: the dataset it borrows and its index
    items,    \* what the calls of next() on iterator returned, in order
    modules   \* the Vec of a Sequential: modules[i] holds the cells of the
              \* module at index i - 1 under their names

vars == <<nodes, cells, pc, roots, args, cur, trail, result, frames, before, calls,
          requires_grad, threads, locks, iterator, items, modules>>

----------------------------------------------------------------------------
(* Bounds of the model *)

\* longest dotted key, in segments, given to from_map in SpecMap
MaxDepth == 3
\* most keys of a flat map given to from_map in SpecMap
MaxKeys == 2
\* most nodes allocated in Spec
MaxNodes == 4
\* most constructing calls (new, from_map, append_child) in Spec
MaxCalls == 3
\* longest dotted key, in segments, of the trees of SpecLoad
LoadDepth == 2
\* most keys of a flat map of SpecLoad
LoadKeys == 2
\* most keys of a flat map of SpecThreads
ThreadKeys == 1
\* times each thread of SpecInc increments its cell
MaxIncrements == 3
\* number of distinct tensor cells
NumCells == 4

Cells == 1..NumCells

\* local names used as key segments
Segs == {<<"a">>, <<"b">>}

----------------------------------------------------------------------------
(* Strings *)

\* byte value of a character, the order String's Ord compares by
Byte(c) ==
    CASE c = "." -> 46
      [] c = "0" -> 48
      [] c = "1" -> 49
      [] c = "2" -> 50
      [] c = "3" -> 51
      [] c = "4" -> 52
      [] c = "5" -> 53
      [] c = "6" -> 54
      [] c = "7" -> 55
      [] c = "8" -> 56
      [] c = "9" -> 57
      [] c = "a" -> 97
      [] c = "b" -> 98
      [] OTHER -> 0

MinNat(S) == CHOOSE x \in S : \A y \in S : x <= y

\* s < t for Strings: lexicographic by bytes, a proper prefix first
StrLess(s, t) ==
    \E i \in 1..(Len(t)) :
        /\ i <= Len(s) + 1
        /\ \A j \in 1..(i - 1) : s[j] = t[j]
        /\ \/ i = Len(s) + 1
           \/ i <= Len(s) /\ Byte(s[i]) < Byte(t[i])

RECURSIVE Split(_)
\* key.split("."): the segments between the dots, empty segments kept
Split(key) ==
    LET dots == {i \in 1..Len(key) : key[i] = "."}
    IN  IF dots = {} THEN <<key>>
        ELSE LET d == MinNat(dots)
             IN  <<SubSeq(key, 1, d - 1)>> \o Split(SubSeq(key, d + 1, Len(key)))

RECURSIVE JoinNoSeparator(_)
\* segments.join(""): the segments run together
JoinNoSeparator(segs) ==
    IF Len(segs) = 0 THEN <<>>
    ELSE segs[1] \o JoinNoSeparator(Tail(segs))

RECURSIVE Join(_)
\* segments.join(".")
Join(segs) ==
    IF Len(segs) = 0 THEN <<>>
    ELSE IF Len(segs) = 1 THEN segs[1]
    ELSE segs[1] \o <<".">> \o Join(Tail(segs))

\* format!("{}.{}", a, b)
Dotted(a, b) == a \o <<".">> \o b

\* s occurs in msg
Contains(msg, s) ==
    \E i \in 1..(Len(msg) + 1) :
        /\ i + Len(s) - 1 <= Len(msg)
        /\ SubSeq(msg, i, i + Len(s) - 1) = s

----------------------------------------------------------------------------
(* Maps *)

EmptyMap == <<>>

\* HashMap::insert: the entry under k is replaced
Insert(f, k, v) == [x \in (DOMAIN f) \cup {k} |-> IF x = k THEN v ELSE f[x]]

\* the elements of a vector
Range(v) == {v[i] : i \in DOMAIN v}

RECURSIVE SortedKeys(_)
\* iteration order of a BTreeMap<String, _>: ascending keys
SortedKeys(S) ==
    IF S = {} THEN <<>>
    ELSE LET m == CHOOSE k \in S : \A j \in S \ {k} : StrLess(k, j)
         IN  <<m>> \o SortedKeys(S \ {m})

----------------------------------------------------------------------------
(* The data *)

\* Weak::new(): a back-reference that never resolves
NoParent == 0

\* StateValue::Tensor
Tensor(c) == [tag |-> "Tensor", cell |-> c]

\* StateValue::ChildStateDict
ChildStateDict(n) == [tag |-> "ChildStateDict", sd |-> n]

\* the StateDictData StateDict::new() allocates
NewData == [name |-> <<>>, parent |-> NoParent, parameters |-> EmptyMap,
            alive |-> TRUE]

\* the nodes the entries map of n holds as child values
ChildrenOf(heap, n) ==
    {heap[n].parameters[k].sd :
        k \in {j \in DOMAIN heap[n].parameters :
                  heap[n].parameters[j].tag = "ChildStateDict"}}

RECURSIVE DeadNodes(_, _, _)
\* The nodes whose strong count is zero when the program holds the handles
\* `handles`: those no handle names and no live node's entries hold. D are
\* the ones found so far. Nodes that hold each other in a cycle stay.
DeadNodes(heap, handles, D) ==
    LET E == {n \in DOMAIN heap :
                 /\ n \notin handles
                 /\ \A m \in DOMAIN heap : n \in ChildrenOf(heap, m) => m \in D}
    IN  IF E = D THEN D ELSE DeadNodes(heap, handles, E)

\* Drop for Arc<StateDictData>: the nodes left without a strong reference
\* are freed
Sweep(heap, handles) ==
    LET dead == DeadNodes(heap, handles, {})
    IN  [n \in DOMAIN heap |-> [heap[n] EXCEPT !.alive = n \notin dead]]

\* the nodes the handles rts and c name; 0 is a handle given up
HandlesOf(rts, c) == ({rts[i] : i \in DOMAIN rts} \cup {c}) \ {0}

\* a back-reference that keeps resolving after its node was freed
UpgradeDangling(heap, n) == heap[n].parent

\* Weak::upgrade on the parent field of node n: the parent while it has a
\* strong reference left, or NoParent
Upgrade(heap, n) ==
    LET p == heap[n].parent
    IN  IF p # NoParent /\ heap[p].alive THEN p ELSE NoParent

\* a back-reference that is lost: Weak::new() again
DowngradeNone(this) == NoParent

\* Arc::downgrade(&this): a back-reference that resolves to node this
Downgrade(this) == this

----------------------------------------------------------------------------
(* StateDict::from_map *)

\* a comparison that never sees the first segment change
NameNeverChanged(first, current_child_name) == FALSE

\* first != current_child_name (line 67)
NameChanged(first, current_child_name) == first # current_child_name

RECURSIVE from_map(_, _)
\* One pass of the loop body (lines 60-85) for (key, value), on the loop
\* state st = [heap, parameters, has, current_child, current_child_name];
\* this is the node being built.
FromMapBody(st, this, key, value) ==
    LET split == Split(key)
        first == split[1]
    IN  IF Len(split) = 1
        THEN [st EXCEPT !.parameters = Insert(@, first, Tensor(value))]
        ELSE LET flushed ==
                     IF st.has /\ NameChanged(first, st.current_child_name)
                     THEN LET child == from_map(st.heap, st.current_child)
                          IN  [st EXCEPT
                                 !.heap = [child.heap EXCEPT ![child.root].parent = Downgrade(this)],
                                 !.parameters = Insert(@, st.current_child_name,
                                                       ChildStateDict(child.root)),
                                 !.has = FALSE,
                                 !.current_child = EmptyMap,
                                 !.current_child_name = <<>>]
                     ELSE st
                 opened ==
                     IF ~flushed.has
                     THEN [flushed EXCEPT !.has = TRUE,
                                          !.current_child = EmptyMap,
                                          !.current_child_name = first]
                     ELSE flushed
             IN  [opened EXCEPT !.current_child = Insert(@, Join(Tail(split)), value)]

\* The keys in the order the loop of line 60 visits them
FromMapOrder(M) == SortedKeys(DOMAIN M)

\* StateDict::from_map(M) on heap: the new heap and the handle returned
from_map(heap, M) ==
    LET this == Len(heap) + 1
        keys == FromMapOrder(M)
        st0 == [heap |-> Append(heap, NewData), parameters |-> EmptyMap,
                has |-> FALSE, current_child |-> EmptyMap,
                current_child_name |-> <<>>]
        RECURSIVE Loop(_, _)
        Loop(i, st) == IF i > Len(keys) THEN st
                       ELSE Loop(i + 1, FromMapBody(st, this, keys[i], M[keys[i]]))
        end == Loop(1, st0)
        last ==
            IF end.has
            THEN LET child == from_map(end.heap, end.current_child)
                 IN  [end EXCEPT
                        !.heap = [child.heap EXCEPT ![child.root].parent = Downgrade(this)],
                        !.parameters = Insert(@, end.current_child_name,
                                              ChildStateDict(child.root))]
            ELSE end
    IN  [heap |-> [last.heap EXCEPT ![this].parameters = last.parameters],
         root |-> this]

----------------------------------------------------------------------------
(* StateDictData: path, tensor, child_state_dict, to_map *)

RootToken == <<"r", "o", "o", "t">>

RECURSIVE PathRec(_, _, _)
\* path() of node n; seen are the nodes whose path() is on the call stack.
\* When the parent links lead back to one of them the recursion never
\* returns: ok is FALSE.
PathRec(heap, n, seen) ==
    LET parent == Upgrade(heap, n)
    IN  IF parent = NoParent THEN [ok |-> TRUE, str |-> RootToken]
        ELSE IF parent \in seen THEN [ok |-> FALSE, str |-> <<>>]
        ELSE LET up == PathRec(heap, parent, seen \cup {parent})
             IN  IF up.ok THEN [ok |-> TRUE, str |-> Dotted(up.str, heap[n].name)]
                 ELSE up

path(heap, n) == PathRec(heap, n, {n})

\* self.parameters().get(key)
Get(heap, n, key) ==
    IF key \in DOMAIN heap[n].parameters
    THEN heap[n].parameters[key]
    ELSE [tag |-> "None"]

\* tensor(key) on node n: Ok(cell), Err(message), or no return at all
tensor(heap, n, key) ==
    LET e == Get(heap, n, key)
    IN  IF e.tag = "Tensor" THEN [kind |-> "Ok", cell |-> e.cell]
        ELSE LET p == path(heap, n)
             IN  IF p.ok
                 THEN [kind |-> "Err",
                       msg |-> <<"No such parameter: ">> \o key \o <<" in ">> \o p.str]
                 ELSE [kind |-> "Overflow"]

\* child_state_dict(module_name) on node n
child_state_dict(heap, n, module_name) ==
    LET e == Get(heap, n, module_name)
    IN  IF e.tag = "ChildStateDict" THEN [kind |-> "Ok", sd |-> e.sd]
        ELSE LET p == path(heap, n)
             IN  IF p.ok
                 THEN [kind |-> "Err",
                       msg |-> <<"No such module: ">> \o module_name \o <<" in ">> \o p.str]
                 ELSE [kind |-> "Overflow"]

RECURSIVE ToMapRec(_, _, _)
\* The (key, cell) pairs to_map() of node n inserts into its result; onstack
\* are the nodes whose to_map() is running. ok is FALSE when the recursion
\* re-enters one of them and never returns.
ToMapRec(heap, n, onstack) ==
    LET ps == heap[n].parameters
        leaves == {k \in DOMAIN ps : ps[k].tag = "Tensor"}
        children == {k \in DOMAIN ps : ps[k].tag = "ChildStateDict"}
        sub == [k \in children |->
                  IF ps[k].sd \in onstack THEN [ok |-> FALSE, pairs |-> {}]
                  ELSE ToMapRec(heap, ps[k].sd, onstack \cup {ps[k].sd})]
    IN  [ok |-> \A k \in children : sub[k].ok,
         pairs |-> {<<k, ps[k].cell>> : k \in leaves}
                   \cup UNION {{<<Dotted(k, kv[1]), kv[2]>> : kv \in sub[k].pairs} :
                               k \in children}]

\* The maps to_map() of node n can return: one key per inserted key, holding
\* the cell of the insertion that came last (any of them, the entries being
\* visited in hash order)
to_map(heap, n) ==
    LET r == ToMapRec(heap, n, {n})
        keys == {kv[1] : kv \in r.pairs}
    IN  IF r.ok
        THEN {[kind |-> "Ok", map |-> f] :
                f \in {g \in [keys -> Cells] : \A k \in keys : <<k, g[k]>> \in r.pairs}}
        ELSE {[kind |-> "Overflow"]}

RECURSIVE Perms(_)
\* the orders in which the entries under the keys S can come out of a HashMap
Perms(S) ==
    IF S = {} THEN {<<>>}
    ELSE UNION {{<<k>> \o rest : rest \in Perms(S \ {k})} : k \in S}

\* to_vec() that pushes the leaves of the node and skips its children
ToVecShallow(heap, n, onstack) ==
    LET ps == heap[n].parameters
        leaves == {k \in DOMAIN ps : ps[k].tag = "Tensor"}
    IN  [ok |-> TRUE,
         vecs |-> {[i \in 1..Len(ord) |-> ps[ord[i]].cell] : ord \in Perms(leaves)}]

RECURSIVE ToVecRec(_, _, _)
\* The vectors to_vec() of node n can return, one per order in which the
\* entries of each node are visited; onstack are the nodes whose to_vec() is
\* running. ok is FALSE when the recursion re-enters one of them.
ToVecRec(heap, n, onstack) ==
    LET ps == heap[n].parameters
        children == {k \in DOMAIN ps : ps[k].tag = "ChildStateDict"}
        sub == [k \in children |->
                  IF ps[k].sd \in onstack THEN [ok |-> FALSE, vecs |-> {}]
                  ELSE ToVecRec(heap, ps[k].sd, onstack \cup {ps[k].sd})]
        ok == \A k \in children : sub[k].ok
        RECURSIVE Visit(_)
        \* parameters after the entries ord have been visited in that order
        Visit(ord) ==
            IF Len(ord) = 0 THEN {<<>>}
            ELSE LET k == ord[Len(ord)]
                     pushed == IF ps[k].tag = "Tensor" THEN {<<ps[k].cell>>}
                               ELSE sub[k].vecs
                 IN  {a \o b : a \in Visit(SubSeq(ord, 1, Len(ord) - 1)),
                               b \in pushed}
    IN  [ok |-> ok,
         vecs |-> IF ok THEN UNION {Visit(ord) : ord \in Perms(DOMAIN ps)} ELSE {}]

\* to_vec() of node n: the vectors it can return, or no return at all
to_vec(heap, n) ==
    LET r == ToVecRec(heap, n, {n})
    IN  IF r.ok THEN {[kind |-> "Ok", vec |-> v] : v \in r.vecs}
        ELSE {[kind |-> "Overflow"]}

----------------------------------------------------------------------------
(* Display for StateDict *)

Digits == <<"0", "1", "2", "3", "4", "5", "6", "7", "8", "9">>

RECURSIVE Debug(_)
\* {:?} of a tensor holding v: its decimal digits
Debug(v) ==
    IF v < Len(Digits) THEN <<Digits[v + 1]>>
    ELSE Debug(v \div Len(Digits)) \o <<Digits[(v % Len(Digits)) + 1]>>

\* the entries left in the order the HashMap yielded them
Unsorted(ord) == ord

RECURSIVE SortBy(_)
\* parameters.sort_by(|(a, _), (b, _)| a.cmp(b)) on the keys ord
SortBy(ord) ==
    IF Len(ord) <= 1 THEN ord
    ELSE LET k == ord[Len(ord)]
             front == SortBy(SubSeq(ord, 1, Len(ord) - 1))
             before_k == SelectSeq(front, LAMBDA x : ~StrLess(k, x))
             after_k == SelectSeq(front, LAMBDA x : StrLess(k, x))
         IN  before_k \o <<k>> \o after_k

RECURSIVE DisplayRec(_, _, _, _)
\* What fmt writes for node n, one text per order in which the HashMaps
\* yield their entries; onstack are the nodes whose fmt is running.
DisplayRec(heap, cellsv, n, onstack) ==
    LET ps == heap[n].parameters
        children == {k \in DOMAIN ps : ps[k].tag = "ChildStateDict"}
        sub == [k \in children |->
                  IF ps[k].sd \in onstack THEN [ok |-> FALSE, outs |-> {}]
                  ELSE DisplayRec(heap, cellsv, ps[k].sd, onstack \cup {ps[k].sd})]
        ok == \A k \in children : sub[k].ok
        RECURSIVE Write(_)
        \* f after the entries ord have been written in that order
        Write(ord) ==
            IF Len(ord) = 0 THEN {<<>>}
            ELSE LET k == ord[Len(ord)]
                     written ==
                         IF ps[k].tag = "Tensor"
                         THEN {k \o <<":", " ">> \o Debug(cellsv[ps[k].cell])
                                 \o <<"\n">>}
                         ELSE {k \o <<":", "\n">> \o o : o \in sub[k].outs}
                 IN  {a \o b : a \in Write(SubSeq(ord, 1, Len(ord) - 1)),
                               b \in written}
    IN  [ok |-> ok,
         outs |-> IF ok
                  THEN UNION {Write(SortBy(ord)) : ord \in Perms(DOMAIN ps)}
                  ELSE {}]

\* format!("{}", n): the texts it can give, or no return at all
Display(heap, cellsv, n) ==
    LET r == DisplayRec(heap, cellsv, n, {n})
    IN  IF r.ok THEN {[kind |-> "Ok", text |-> o] : o \in r.outs}
        ELSE {[kind |-> "Overflow"]}

----------------------------------------------------------------------------
(* Inputs *)

\* dotted keys of 1..d segments, no segment empty
RECURSIVE KeysUpTo(_)
KeysUpTo(d) ==
    IF d = 1 THEN Segs
    ELSE KeysUpTo(d - 1) \cup {Dotted(s, k) : s \in Segs, k \in KeysUpTo(d - 1)}

RECURSIVE SubsetsUpTo(_, _)
\* the subsets of S with at most k elements
SubsetsUpTo(S, k) ==
    IF k = 0 THEN {{}}
    ELSE LET prev == SubsetsUpTo(S, k - 1)
         IN  prev \cup {D \cup {x} : D \in prev, x \in S}

RECURSIVE Assignments(_, _)
\* The ways to put cells under the keys ks (taken in order) when `used` cells
\* are in use already: each key gets a cell in use or the next fresh one, so
\* one cell may sit under several keys. Cells being opaque identities, maps
\* that differ only in which fresh cell is taken are the same input.
Assignments(ks, used) ==
    IF Len(ks) = 0 THEN {<<>>}
    ELSE UNION {{<<c>> \o rest :
                    rest \in Assignments(Tail(ks), IF c > used THEN c ELSE used)} :
                c \in 1..(IF used < NumCells THEN used + 1 ELSE NumCells)}

\* HashMap<String, Arc<Mutex<Tensor>>> values with at most k keys of keys,
\* over the cells 1..used and fresh ones
FlatMapsFrom(keys, k, used) ==
    UNION {LET ks == SortedKeys(D)
           IN  {[key \in D |-> a[CHOOSE i \in 1..Len(ks) : ks[i] = key]] :
                   a \in Assignments(ks, used)} :
           D \in SubsetsUpTo(keys, k)}

FlatMaps(keys, k) == FlatMapsFrom(keys, k, 0)

NoResult == [op |-> "none"]

----------------------------------------------------------------------------
(* Calls of the program *)

\* let t = StateDict::from_map(M), M drawn from maps
FromMapCall(maps) ==
    \E M \in maps :
        LET r == from_map(nodes, M)
        IN  /\ nodes' = Sweep(r.heap, HandlesOf(Append(roots, r.root), r.root))
            /\ roots' = Append(roots, r.root)
            /\ args' = Append(args, M)
            /\ cur' = r.root
            /\ trail' = <<>>
            /\ result' = [op |-> "from_map", node |-> r.root]
            /\ calls' = calls + 1
            /\ UNCHANGED <<modules, iterator, items, requires_grad, threads, locks, cells, pc, frames, before>>

\* cur.to_map()
ToMapCall ==
    /\ cur # 0
    /\ \E r \in to_map(nodes, cur) :
           result' = [op |-> "to_map", node |-> cur, ret |-> r]
    /\ UNCHANGED <<modules, iterator, items, requires_grad, threads, locks, nodes, cells, pc, roots, args,
                 cur, trail, frames, before, calls>>

\* cur.to_vec()
ToVecCall ==
    /\ cur # 0
    /\ \E r \in to_vec(nodes, cur) :
           result' = [op |-> "to_vec", node |-> cur, ret |-> r]
    /\ UNCHANGED <<modules, iterator, items, requires_grad, threads, locks, nodes, cells, pc, roots, args,
                 cur, trail, frames, before, calls>>

\* cur.path()
PathCall ==
    /\ cur # 0
    /\ result' = [op |-> "path", node |-> cur, ret |-> path(nodes, cur)]
    /\ UNCHANGED <<modules, iterator, items, requires_grad, threads, locks, nodes, cells, pc, roots, args,
                 cur, trail, frames, before, calls>>

\* cur.tensor(key)
TensorCall ==
    /\ cur # 0
    /\ \E key \in Segs :
           result' = [op |-> "tensor", node |-> cur, key |-> key,
                      ret |-> tensor(nodes, cur, key)]
    /\ UNCHANGED <<modules, iterator, items, requires_grad, threads, locks, nodes, cells, pc, roots, args,
                 cur, trail, frames, before, calls>>

\* cur = cur.child_state_dict(name).unwrap() when it is Ok; the Err is kept
\* in result otherwise
ChildStateDictCall ==
    /\ cur # 0
    /\ Len(trail) < MaxDepth
    /\ \E name \in Segs :
           LET r == child_state_dict(nodes, cur, name)
           IN  /\ result' = [op |-> "child_state_dict", node |-> cur, key |-> name,
                             ret |-> r]
               /\ cur' = IF r.kind = "Ok" THEN r.sd ELSE cur
               /\ nodes' = Sweep(nodes, HandlesOf(roots, cur'))
               /\ trail' = IF r.kind = "Ok" THEN Append(trail, name) ELSE trail
    /\ UNCHANGED <<modules, iterator, items, requires_grad, threads, locks, cells, pc, roots, args, frames,
                   before, calls>>

----------------------------------------------------------------------------
(* SpecMap: one tree built by from_map, then queried *)

InitCells == [c \in Cells |-> c]

\* the threads of the surrounding program
Threads == {1, 2}

\* a thread that has not called anything yet
IdleThread == [pc |-> "idle", stack |-> <<>>, held |-> <<>>, key |-> <<>>,
               cell |-> 0, count |-> 0, tmp |-> 0]

\* no Mutex is held and none is poisoned; owner 0 is nobody
NoLocks == [owner |-> [c \in Cells |-> 0], poisoned |-> {}]

\* no dataset is iterated
NoIterator == [index |-> 0]

\* before any call on state trees
InitTrees ==
    /\ nodes = <<>>
    /\ cells = InitCells
    /\ pc = "idle"
    /\ roots = <<>>
    /\ args = <<>>
    /\ cur = 0
    /\ trail = <<>>
    /\ result = NoResult
    /\ frames = <<>>
    /\ before = <<>>
    /\ calls = 0
    /\ requires_grad = [c \in Cells |-> TRUE]
    /\ threads = [t \in Threads |-> IdleThread]
    /\ locks = NoLocks

Init ==
    /\ InitTrees
    /\ iterator = NoIterator
    /\ items = <<>>
    /\ modules = <<>>

NextMap ==
    \/ roots = <<>> /\ FromMapCall(FlatMaps(KeysUpTo(MaxDepth), MaxKeys))
    \/ ToMapCall
    \/ ToVecCall

SpecMap == Init /\ [][NextMap]_vars

----------------------------------------------------------------------------
(* Spec: trees assembled by new, from_map and append_child, then queried *)

\* append_child taking the back-reference of a child that already points at
\* self for one to clear
AppendChildDetaching(heap, self, module_name, child) ==
    LET linked == [heap EXCEPT ![child].parent =
                       IF @ = self THEN NoParent ELSE Downgrade(self)]
    IN  [linked EXCEPT ![self].parameters =
                           Insert(@, module_name, ChildStateDict(child))]

\* append_child leaving alone the back-reference of a child that has one
AppendChildKeepParent(heap, self, module_name, child) ==
    LET linked == [heap EXCEPT ![child].parent =
                       IF @ = NoParent THEN Downgrade(self) ELSE @]
    IN  [linked EXCEPT ![self].parameters =
                           Insert(@, module_name, ChildStateDict(child))]

\* StateDict::append_child on the handle of node self
append_child(heap, self, module_name, child) ==
    LET linked == [heap EXCEPT ![child].parent = Downgrade(self)]
    IN  [linked EXCEPT ![self].parameters =
                           Insert(@, module_name, ChildStateDict(child))]

\* the handles the program holds
Handles == HandlesOf(roots, cur)

\* let t = StateDict::new()
NewCall ==
    /\ Len(nodes) < MaxNodes
    /\ nodes' = Sweep(Append(nodes, NewData),
                      HandlesOf(Append(roots, Len(nodes) + 1), Len(nodes) + 1))
    /\ roots' = Append(roots, Len(nodes) + 1)
    /\ args' = Append(args, EmptyMap)
    /\ cur' = Len(nodes) + 1
    /\ trail' = <<>>
    /\ result' = [op |-> "new", node |-> Len(nodes) + 1]
    /\ calls' = calls + 1
    /\ UNCHANGED <<modules, iterator, items, requires_grad, threads, locks, cells, pc, frames, before>>

\* p.append_child(name, c.clone()) on two handles held
AppendChildCall ==
    \E p \in Handles, c \in Handles, name \in Segs :
        /\ nodes' = Sweep(append_child(nodes, p, name, c), Handles)
        /\ result' = [op |-> "append_child", node |-> p, key |-> name, child |-> c,
                      \* what the call found: the entry under name, the
                      \* child's back-reference, and whether it repeats
                      \* the call made just before
                      had |-> Get(nodes, p, name).tag,
                      was |-> Upgrade(nodes, c),
                      repeat |-> /\ result.op = "append_child"
                                 /\ result.node = p /\ result.key = name
                                 /\ result.child = c]
        /\ calls' = calls + 1
        /\ UNCHANGED <<modules, iterator, items, requires_grad, threads, locks, cells, pc, roots, args, cur, trail, frames, before>>

\* cur = t.clone() for a handle t returned by new or from_map
SelectCall ==
    \E i \in DOMAIN roots :
        /\ roots[i] # 0
        /\ cur' = roots[i]
        /\ nodes' = Sweep(nodes, HandlesOf(roots, roots[i]))
        /\ trail' = <<>>
        /\ result' = NoResult
        /\ UNCHANGED <<modules, iterator, items, requires_grad, threads, locks, cells, pc, roots, args, frames,
                       before, calls>>

Next ==
    \/ /\ calls < MaxCalls
       /\ Len(nodes) + MaxDepth <= MaxNodes
       /\ FromMapCall(FlatMaps(KeysUpTo(MaxDepth), 1))
    \/ calls < MaxCalls /\ NewCall
    \/ calls < MaxCalls /\ AppendChildCall
    \/ SelectCall
    \/ PathCall
    \/ TensorCall
    \/ ChildStateDictCall
    \/ ToMapCall

Spec == Init /\ [][Next]_vars

----------------------------------------------------------------------------
(* SpecDrop: the same calls, and handles going out of scope *)

\* drop(t) for a handle t returned by new or from_map
DropCall ==
    \E i \in DOMAIN roots :
        /\ roots[i] # 0
        /\ roots' = [roots EXCEPT ![i] = 0]
        /\ nodes' = Sweep(nodes, HandlesOf(roots', cur))
        /\ result' = [op |-> "drop", node |-> roots[i]]
        /\ UNCHANGED <<modules, iterator, items, requires_grad, threads, locks, cells, pc, args, cur, trail,
                       frames, before, calls>>

NextDrop ==
    \/ /\ calls < MaxCalls
       /\ Len(nodes) + MaxDepth <= MaxNodes
       /\ FromMapCall(FlatMaps(KeysUpTo(MaxDepth), 1))
    \/ calls < MaxCalls /\ NewCall
    \/ calls < MaxCalls /\ AppendChildCall
    \/ SelectCall
    \/ ChildStateDictCall
    \/ DropCall
    \/ PathCall

SpecDrop == Init /\ [][NextDrop]_vars

----------------------------------------------------------------------------
(* The shape of the heap *)

RECURSIVE Below(_, _)
\* S and everything reachable from S through entries maps
Below(heap, S) ==
    LET T == S \cup UNION {ChildrenOf(heap, m) : m \in S}
    IN  IF T = S THEN S ELSE Below(heap, T)

RECURSIVE Above(_, _)
\* S and everything reachable from S through resolving back-references
Above(heap, S) ==
    LET T == S \cup ({Upgrade(heap, m) : m \in S} \ {NoParent})
    IN  IF T = S THEN S ELSE Above(heap, T)

\* no node is its own ancestor, through entries maps or back-references
Acyclic(heap) ==
    \A n \in DOMAIN heap :
        /\ n \notin Below(heap, ChildrenOf(heap, n))
        /\ n \notin Above(heap, {Upgrade(heap, n)} \ {NoParent})

----------------------------------------------------------------------------
(* Properties of from_map, to_map and path *)

\* no segment of a key of M is empty
WellFormed(M) ==
    \A k \in DOMAIN M : \A i \in 1..Len(Split(k)) : Split(k)[i] # <<>>

\* no key of M is another key of M followed by "." and more segments
PrefixFree(M) ==
    \A k1 \in DOMAIN M, k2 \in DOMAIN M :
        ~(Len(k2) > Len(k1) /\ SubSeq(k2, 1, Len(k1) + 1) = k1 \o <<".">>)

\* the tree was built by one from_map call and nothing was attached since
BuiltByFromMap == Len(roots) = 1 /\ nodes = from_map(<<>>, args[1]).heap

RECURSIVE PathOfNames(_)
\* "root" followed by "." and a name, for each name in turn
PathOfNames(names) ==
    IF Len(names) = 0 THEN RootToken
    ELSE Dotted(PathOfNames(SubSeq(names, 1, Len(names) - 1)), names[Len(names)])

\* C1 as stated: for every flat map M with well-formed keys,
\* from_map(M).to_map() returns exactly M (same keys, same cells).
C1_RoundTrip ==
    (result.op = "to_map" /\ result.node = roots[1] /\ WellFormed(args[1]))
        => (result.ret.kind = "Ok" /\ result.ret.map = args[1])

\* C1 amended: for every flat map M with well-formed keys none of which is a
\* dotted prefix of another, from_map(M).to_map() returns exactly M.
C1_RoundTripPrefixFree ==
    (result.op = "to_map" /\ result.node = roots[1] /\ WellFormed(args[1])
        /\ PrefixFree(args[1]))
        => (result.ret.kind = "Ok" /\ result.ret.map = args[1])

C1_Witness ==
    /\ result.op = "to_map"
    /\ result.node = roots[1]
    /\ PrefixFree(args[1])
    /\ Cardinality(DOMAIN args[1]) = MaxKeys
    /\ \E k \in DOMAIN args[1] : Len(Split(k)) = MaxDepth
    /\ \E k \in DOMAIN args[1] : Len(Split(k)) < MaxDepth
    /\ result.ret.kind = "Ok"
    /\ result.ret.map = args[1]

\* C3: in a tree built by from_map, path() of the node reached from the root
\* by following names n1..nk is "root.n1. ... .nk".
C3_PathAfterFromMap ==
    (result.op = "path" /\ BuiltByFromMap /\ result.node = cur)
        => (result.ret.ok /\ result.ret.str = PathOfNames(trail))

\* C7: tensor(key) returns Ok with the cell stored under key exactly when the
\* node's entries hold key as a leaf, and returns an error value otherwise.
C7_TensorLookup ==
    result.op = "tensor" =>
        LET e == Get(nodes, result.node, result.key)
        IN  IF e.tag = "Tensor"
            THEN result.ret.kind = "Ok" /\ result.ret.cell = e.cell
            ELSE result.ret.kind = "Err"

\* C8: child_state_dict(name) returns Ok with the nested tree exactly when the
\* entry is a child, and otherwise an error whose message holds the missing
\* name and the node's path (for a from_map tree: "root" and the names
\* leading to the node). Stated for the acyclic trees.
C8_ChildLookup ==
    (result.op = "child_state_dict" /\ Acyclic(nodes)) =>
        LET e == Get(nodes, result.node, result.key)
        IN  IF e.tag = "ChildStateDict"
            THEN result.ret.kind = "Ok" /\ result.ret.sd = e.sd
            ELSE /\ result.ret.kind = "Err"
                 /\ Contains(result.ret.msg, result.key)
                 /\ Contains(result.ret.msg, RootToken)
                 /\ BuiltByFromMap => Contains(result.ret.msg, PathOfNames(trail))

----------------------------------------------------------------------------
(* Properties of append_child *)

\* C9: every node whose back-reference resolves is held as a child value by
\* that parent's entries map and by no other node's (stated for the trees
\* that are acyclic, which C10 is about).
C9_BackReference ==
    Acyclic(nodes) =>
        \A n \in DOMAIN nodes :
            (nodes[n].alive /\ Upgrade(nodes, n) # NoParent) =>
                \A m \in DOMAIN nodes :
                    nodes[m].alive =>
                        ((n \in ChildrenOf(nodes, m)) <=> (m = Upgrade(nodes, n)))

\* C26: path() of a node whose back-reference was never set is "root", and
\* so is path() of a node whose parent has no strong reference left: no
\* handle of the program names the parent and no entries map holds it.
C26_NonOwningParent ==
    result.op = "path" =>
        LET n == result.node
            p == nodes[n].parent
        IN  (\/ p = NoParent
             \/ /\ p \notin Handles
                /\ \A m \in DOMAIN nodes : p \notin ChildrenOf(nodes, m))
                => result.ret = [ok |-> TRUE, str |-> RootToken]

C26_Witness ==
    /\ result.op = "path"
    /\ nodes[result.node].parent # NoParent
    /\ nodes[result.node].parent \notin Handles
    /\ \A m \in DOMAIN nodes : nodes[result.node].parent \notin ChildrenOf(nodes, m)
    /\ result.ret = [ok |-> TRUE, str |-> RootToken]

\* C10: after any sequence of append_child calls no node is its own ancestor.
C10_Acyclic == Acyclic(nodes)

\* C11: node.append_child(x, child) called again right after the same call
\* leaves the whole tree (the entries of node, the back-reference of child,
\* everything else) as the first call left it.
C11_IdempotentReparenting ==
    [][(/\ result.op = "append_child"
        /\ result'.op = "append_child"
        /\ calls' = calls + 1
        /\ result'.node = result.node
        /\ result'.key = result.key
        /\ result'.child = result.child)
          => nodes' = nodes]_vars

C11_Witness ==
    /\ result.op = "append_child"
    /\ result.repeat
    /\ result.child # result.node
    /\ Get(nodes, result.node, result.key) = ChildStateDict(result.child)

\* C21: after node.append_child(name, child), on a tree without cycles,
\* child.path() is node.path() followed by "." and name.
C21_PathAfterAppendChild ==
    (result.op = "append_child" /\ Acyclic(nodes))
        => LET of_child == path(nodes, result.child)
               of_node == path(nodes, result.node)
           IN  /\ of_child.ok
               /\ of_node.ok
               /\ of_child.str = Dotted(of_node.str, result.key)

\* C20: a step node.append_child(name, child) leaves child under name in the
\* entries of node, whatever was there, every other entry of node as it was,
\* and the back-reference of child resolving to node, whatever it was.
C20_AppendChildPost ==
    [][(result'.op = "append_child" /\ calls' = calls + 1)
          => LET p == result'.node
                 name == result'.key
                 c == result'.child
             IN  /\ Get(nodes', p, name) = ChildStateDict(c)
                 /\ Upgrade(nodes', c) = p
                 /\ DOMAIN nodes'[p].parameters
                        = DOMAIN nodes[p].parameters \cup {name}
                 /\ \A k \in DOMAIN nodes[p].parameters \ {name} :
                        nodes'[p].parameters[k] = nodes[p].parameters[k]]_vars

C20_Witness ==
    /\ result.op = "append_child"
    /\ result.had = "ChildStateDict"
    /\ result.was \notin {NoParent, result.node}
    /\ Get(nodes, result.node, result.key) = ChildStateDict(result.child)
    /\ Upgrade(nodes, result.child) = result.node

\* the keys of M that have first segment s and more segments after it
GroupKeys(M, s) ==
    {k \in DOMAIN M : Len(k) > Len(s) /\ SubSeq(k, 1, Len(s) + 1) = s \o <<".">>
                         /\ Split(k)[1] = s}

\* { rest -> cell : "s.rest" is a key of M }
Group(M, s) ==
    [rest \in {SubSeq(k, Len(s) + 2, Len(k)) : k \in GroupKeys(M, s)}
        |-> M[Dotted(s, rest)]]

\* C24 as stated: for every first segment s of a dotted key of M, the node
\* from_map(M) returns holds a child under s whose to_map() is exactly
\* { rest -> cell : "s.rest" is a key of M }.
C24_Grouping ==
    Len(roots) = 1 =>
        \A k \in DOMAIN args[1] :
            Len(Split(k)) > 1 =>
                LET s == Split(k)[1]
                    e == Get(nodes, roots[1], s)
                IN  /\ e.tag = "ChildStateDict"
                    /\ \A m \in to_map(nodes, e.sd) :
                           m.kind = "Ok" /\ m.map = Group(args[1], s)

\* C24 amended: the same, for every first segment s such that among the
\* rests of its keys none is another one followed by "." and more segments.
C24_GroupingPrefixFree ==
    Len(roots) = 1 =>
        \A k \in DOMAIN args[1] :
            (Len(Split(k)) > 1 /\ PrefixFree(Group(args[1], Split(k)[1]))) =>
                LET s == Split(k)[1]
                    e == Get(nodes, roots[1], s)
                IN  /\ e.tag = "ChildStateDict"
                    /\ \A m \in to_map(nodes, e.sd) :
                           m.kind = "Ok" /\ m.map = Group(args[1], s)

C24_Witness ==
    /\ Len(roots) = 1
    /\ Cardinality(ChildrenOf(nodes, roots[1])) = 2
    /\ \E k \in DOMAIN args[1] :
           /\ Len(Split(k)) = MaxDepth
           /\ \A m \in to_map(nodes, Get(nodes, roots[1], Split(k)[1]).sd) :
                  m.kind = "Ok" /\ m.map = Group(args[1], Split(k)[1])

\* C19: when from_map has returned, every node it created other than the one
\* it returns is held by the entries of exactly the node its back-reference
\* resolves to.
C19_FromMapBackReferences ==
    Len(roots) = 1 =>
        \A n \in DOMAIN nodes \ {roots[1]} :
            /\ Upgrade(nodes, n) # NoParent
            /\ \A m \in DOMAIN nodes :
                   (n \in ChildrenOf(nodes, m)) <=> (m = Upgrade(nodes, n))

C19_Witness ==
    /\ Len(roots) = 1
    /\ Cardinality(ChildrenOf(nodes, roots[1])) = 2
    /\ \E n \in DOMAIN nodes :
           /\ Upgrade(nodes, n) \notin {NoParent, roots[1]}
           /\ n \in ChildrenOf(nodes, Upgrade(nodes, n))

----------------------------------------------------------------------------
(* StateDictData::load *)

\* value.copy_(&tensor): the copy made in the wrong direction
CopyReversed(cellsv, dst, value) == [cellsv EXCEPT ![value] = cellsv[dst]]

\* tensor.copy_(&value): the content of cell value written into cell dst
copy_(cellsv, dst, value) == [cellsv EXCEPT ![dst] = cellsv[value]]

\* copy_ outside no_grad: the destination joins the graph of the source
CopyTracked(flags, dst, value) == [flags EXCEPT ![dst] = @ \/ flags[value]]

\* no_grad(|| tensor.copy_(&value)) on the flags: no tensor changes its
\* requires_grad
NoGradCopy(flags, dst, value) == flags

\* the node the recursive call of line 152 runs on: the child found in self
CalleeSelf(self, found) == self

Callee(self, found) == found

\* the arm `_ => ()` of line 154 for a key self does not hold
UnmatchedPanics(cellsv) ==
    [outcome |-> "panic", cells |-> cellsv, self |-> 0, src |-> 0]

Unmatched(cellsv) ==
    [outcome |-> "skipped", cells |-> cellsv, self |-> 0, src |-> 0]

\* One pass of the loop body of load (lines 141-155) on node self for the
\* entry key of the source node src: the ways it can end. "recurse" is the
\* call child_state_dict.load(..) of line 152 on nodes self and src.
LoadEntry(heap, cellsv, self, src, key) ==
    LET value == heap[src].parameters[key]
        mine == Get(heap, self, key)
        end(o) == [outcome |-> o, cells |-> cellsv, self |-> 0, src |-> 0]
    IN  IF mine.tag = "Tensor"
        THEN IF value.tag = "Tensor"
             THEN IF value.cell = mine.cell
                  \* the second lock() of one Mutex by the thread holding it
                  \* never returns: it blocks or panics
                  THEN {end("deadlock"), end("panic")}
                  ELSE {[outcome |-> "copied",
                         cells |-> copy_(cellsv, mine.cell, value.cell),
                         self |-> 0, src |-> 0]}
             ELSE {end("skipped")}
        ELSE IF mine.tag = "ChildStateDict"
        THEN LET r == child_state_dict(heap, src, key)
             IN  IF r.kind = "Ok"
                 THEN {[outcome |-> "recurse", cells |-> cellsv,
                        self |-> Callee(self, mine.sd), src |-> r.sd]}
                 ELSE IF r.kind = "Err"
                 THEN {end("panic")}       \* unwrap() of the Err
                 ELSE {end("overflow")}    \* path() never returned
        ELSE {Unmatched(cellsv)}

\* a call of load on node self with source src, its loop not yet started
Frame(heap, self, src) ==
    [self |-> self, src |-> src, todo |-> DOMAIN heap[src].parameters]

RECURSIVE Return(_)
\* the calls whose loop has visited every entry return
Return(stack) ==
    IF Len(stack) > 0 /\ stack[Len(stack)].todo = {}
    THEN Return(SubSeq(stack, 1, Len(stack) - 1))
    ELSE stack

\* roots[1].load(roots[2].clone()) is called
LoadCall ==
    /\ pc = "idle"
    /\ Len(roots) = 2
    /\ LET stack == Return(<<Frame(nodes, roots[1], roots[2])>>)
       IN  /\ frames' = stack
           /\ pc' = IF Len(stack) = 0 THEN "done" ELSE "loading"
    /\ before' = [cells |-> cells, nodes |-> nodes, requires_grad |-> requires_grad]
    /\ result' = [op |-> "load", node |-> roots[1], src |-> roots[2]]
    /\ UNCHANGED <<modules, iterator, items, requires_grad, threads, locks, nodes, cells, roots, args, cur,
                   trail, calls>>

\* the innermost running call of load visits the next entry of its source,
\* any entry not yet visited (the entries come in the HashMap's order)
LoadStep ==
    /\ pc = "loading"
    /\ LET top == frames[Len(frames)]
       IN  \E key \in top.todo :
           \E r \in LoadEntry(nodes, cells, top.self, top.src, key) :
               LET rest == [frames EXCEPT ![Len(frames)].todo = @ \ {key}]
                   stack == IF r.outcome = "recurse"
                            THEN Return(Append(rest, Frame(nodes, r.self, r.src)))
                            ELSE Return(rest)
               IN  /\ cells' = r.cells
                   /\ requires_grad' =
                          IF r.outcome = "copied"
                          THEN NoGradCopy(requires_grad,
                                          Get(nodes, top.self, key).cell,
                                          Get(nodes, top.src, key).cell)
                          ELSE requires_grad
                   /\ result' = [op |-> "load_entry", node |-> top.self,
                                 src |-> top.src, key |-> key,
                                 outcome |-> r.outcome]
                   /\ IF r.outcome \in {"copied", "skipped", "recurse"}
                      THEN /\ frames' = stack
                           /\ pc' = IF Len(stack) = 0 THEN "done" ELSE "loading"
                      ELSE /\ frames' = frames
                           /\ pc' = r.outcome
    /\ UNCHANGED <<modules, iterator, items, threads, locks, nodes, roots, args, cur, trail, before, calls>>

\* the largest cell in use in the flat maps given so far
UsedCells ==
    LET used == UNION {{args[i][k] : k \in DOMAIN args[i]} : i \in DOMAIN args}
    IN  IF used = {} THEN 0 ELSE CHOOSE c \in used : \A d \in used : d <= c

\* Trainable::freeze on the module whose parameters are the tree roots[i]:
\* every tensor of its to_vec() gets requires_grad false
FreezeCall ==
    /\ pc = "idle"
    /\ Len(roots) = 2
    /\ \E i \in DOMAIN roots :
       \E r \in to_vec(nodes, roots[i]) :
           /\ r.kind = "Ok"
           /\ requires_grad' =
                  [c \in Cells |-> c \notin Range(r.vec) /\ requires_grad[c]]
           /\ requires_grad' # requires_grad
           /\ result' = [op |-> "freeze", node |-> roots[i]]
    /\ UNCHANGED <<modules, iterator, items, threads, locks, nodes, cells, pc, roots, args, cur, trail,
                   frames, before, calls>>

\* println!("{}", roots[i]) before or after the load
DisplayCall ==
    /\ pc \in {"idle", "done"}
    /\ Len(roots) = 2
    /\ \E i \in DOMAIN roots :
       \E r \in Display(nodes, cells, roots[i]) :
           result' = [op |-> "display", node |-> roots[i], ret |-> r]
    /\ UNCHANGED <<modules, iterator, items, requires_grad, threads, locks, nodes, cells, pc, roots, args,
                   cur, trail, frames, before, calls>>

\* SpecLoad: a target and a source built by from_map, then target.load(source)
NextLoad ==
    \/ /\ Len(roots) < 2
       /\ FromMapCall(FlatMapsFrom(KeysUpTo(LoadDepth), LoadKeys, UsedCells))
    \/ FreezeCall
    \/ DisplayCall
    \/ LoadCall
    \/ LoadStep

SpecLoad == Init /\ [][NextLoad]_vars

----------------------------------------------------------------------------
(* Properties of load *)

\* the (dotted path, cell) pairs of the leaves below node n
Leaves(heap, n) == ToMapRec(heap, n, {n}).pairs

\* the dotted paths that are leaves below n
LeafPaths(heap, n) == {kv[1] : kv \in Leaves(heap, n)}

\* the cells below n
CellsOf(heap, n) == {kv[2] : kv \in Leaves(heap, n)}

\* the dotted paths that are leaves both below the target and the source
Matched == LeafPaths(nodes, roots[1]) \cap LeafPaths(nodes, roots[2])

\* the cells the target holds under a matched path
MatchedCells == {kv[2] : kv \in {t \in Leaves(nodes, roots[1]) : t[1] \in Matched}}

\* C2: with T holding a child under x and S a leaf under x (and nothing
\* else), T.load(S) returns normally and leaves T unchanged.
C2_TagMismatchSkip ==
    (/\ result.op = "load_entry"
     /\ result.node = roots[1]
     /\ DOMAIN nodes[roots[2]].parameters = {result.key}
     /\ Get(nodes, roots[1], result.key).tag = "ChildStateDict"
     /\ Get(nodes, roots[2], result.key).tag = "Tensor")
        => (pc = "done" /\ nodes = before.nodes /\ cells = before.cells)

\* C4 as stated: after T.load(S) with T and S sharing no cells, every path
\* that is a leaf in both holds in T a value equal to S's value there.
C4_LoadCopiesMatched ==
    (pc = "done" /\ CellsOf(nodes, roots[1]) \cap CellsOf(nodes, roots[2]) = {})
        => \A t \in Leaves(nodes, roots[1]), s \in Leaves(nodes, roots[2]) :
               t[1] = s[1] => cells[t[2]] = cells[s[2]]

\* C4 amended: after T.load(S) with T and S sharing no cells, every path that
\* is a leaf in both, and whose cell T holds under no other such path, holds
\* in T a value equal to S's value there.
C4_LoadCopiesMatchedOnce ==
    (pc = "done" /\ CellsOf(nodes, roots[1]) \cap CellsOf(nodes, roots[2]) = {})
        => \A t \in Leaves(nodes, roots[1]), s \in Leaves(nodes, roots[2]) :
               (/\ t[1] = s[1]
                /\ \A u \in Leaves(nodes, roots[1]) :
                       (u[2] = t[2] /\ u[1] \in Matched) => u = t)
                   => /\ cells[t[2]] = before.cells[s[2]]
                      /\ cells[s[2]] = before.cells[s[2]]

C4_Witness ==
    /\ pc = "done"
    /\ CellsOf(nodes, roots[1]) \cap CellsOf(nodes, roots[2]) = {}
    /\ \E t \in Leaves(nodes, roots[1]), s \in Leaves(nodes, roots[2]) :
           /\ t[1] = s[1]
           /\ Len(Split(t[1])) = LoadDepth
           /\ cells[t[2]] = before.cells[s[2]]
           /\ cells[t[2]] # before.cells[t[2]]
    /\ \E t \in Leaves(nodes, roots[1]), s \in Leaves(nodes, roots[2]) :
           /\ t[1] = s[1]
           /\ Len(Split(t[1])) = 1
           /\ cells[t[2]] = before.cells[s[2]]
           /\ cells[t[2]] # before.cells[t[2]]

\* C5 as stated: after T.load(S), every leaf of T whose path is not a leaf
\* path of S keeps the value it had before the call.
C5_PartialLoadFrame ==
    pc = "done"
        => \A t \in Leaves(nodes, roots[1]) :
               t[1] \notin LeafPaths(nodes, roots[2])
                   => cells[t[2]] = before.cells[t[2]]

\* C5 amended: after T.load(S), every leaf of T whose path is not a leaf path
\* of S, and whose cell T does not also hold under a leaf path of S, keeps
\* the value it had before the call.
C5_PartialLoadFrameUnshared ==
    pc = "done"
        => \A t \in Leaves(nodes, roots[1]) :
               (t[1] \notin LeafPaths(nodes, roots[2]) /\ t[2] \notin MatchedCells)
                   => cells[t[2]] = before.cells[t[2]]

C5_Witness ==
    /\ pc = "done"
    /\ \E t \in Leaves(nodes, roots[1]) :
           /\ t[1] \notin LeafPaths(nodes, roots[2])
           /\ t[2] \notin MatchedCells
           /\ cells[t[2]] = before.cells[t[2]]
    /\ \E t \in Leaves(nodes, roots[1]) :
           /\ t[1] \in Matched
           /\ cells[t[2]] # before.cells[t[2]]

\* the entry key of src is one load skips on self: self holds no entry of
\* that name, or holds a leaf there where src holds a child
Skippable(self, src, key) ==
    \/ Get(nodes, self, key).tag = "None"
    \/ /\ Get(nodes, self, key).tag = "Tensor"
       /\ Get(nodes, src, key).tag = "ChildStateDict"

\* C6: when load visits a source entry whose name the target does not hold,
\* or holds as a leaf where the source holds a child, the visit ends without
\* error and changes no entry and no leaf value.
C6_SkipSilently ==
    [][(pc = "loading" /\ result'.op = "load_entry"
            /\ Skippable(result'.node, result'.src, result'.key))
          => (cells' = cells /\ nodes' = nodes /\ pc' \in {"loading", "done"})]_vars

C6_Witness ==
    /\ pc = "done"
    /\ cells = before.cells
    /\ nodes = before.nodes
    /\ \E k \in DOMAIN nodes[roots[2]].parameters :
           Get(nodes, roots[1], k).tag = "None"
    /\ \E k \in DOMAIN nodes[roots[2]].parameters :
           /\ Get(nodes, roots[1], k).tag = "Tensor"
           /\ Get(nodes, roots[2], k).tag = "ChildStateDict"

----------------------------------------------------------------------------
(* Arc<Mutex<Tensor>>: the value lock of a cell *)

\* a lock() that returns whoever holds the Mutex
CanLockAlways(lk, c, t) == TRUE

\* Mutex::lock by thread t returns once nobody holds the Mutex of cell c
CanLock(lk, c, t) == lk.owner[c] = 0

\* the MutexGuard of cell c is given to thread t
Acquire(lk, c, t) == [lk EXCEPT !.owner[c] = t]

\* a MutexGuard that outlives its scope
ReleaseLeaked(lk, c) == lk

\* the MutexGuard of cell c is dropped
Release(lk, c) == [lk EXCEPT !.owner[c] = 0]

\* the MutexGuard of cell c is dropped by a panicking thread
ReleasePoisoned(lk, c) ==
    [lk EXCEPT !.owner[c] = 0, !.poisoned = @ \cup {c}]

----------------------------------------------------------------------------
(* SpecInc: threads that lock a cell, replace its value by one more, and
   drop the guard, as Trainable::freeze replaces a tensor under its lock *)

\* thread t is given a clone of the Arc of a cell
IncStart(t) ==
    /\ threads[t].pc = "idle"
    /\ \E c \in Cells :
           threads' = [threads EXCEPT ![t].pc = "lock", ![t].cell = c]
    /\ UNCHANGED <<modules, iterator, items, nodes, cells, pc, roots, args, cur, trail, result, frames,
                   before, calls, requires_grad, locks>>

\* let mut tensor = cell.lock().unwrap()
IncLock(t) ==
    /\ threads[t].pc = "lock"
    /\ CanLock(locks, threads[t].cell, t)
    /\ locks' = Acquire(locks, threads[t].cell, t)
    /\ threads' = [threads EXCEPT ![t].pc = "read"]
    /\ UNCHANGED <<modules, iterator, items, nodes, cells, pc, roots, args, cur, trail, result, frames,
                   before, calls, requires_grad>>

\* the value is read through the guard
IncRead(t) ==
    /\ threads[t].pc = "read"
    /\ threads' = [threads EXCEPT ![t].pc = "write",
                                  ![t].tmp = cells[threads[t].cell]]
    /\ UNCHANGED <<modules, iterator, items, nodes, cells, pc, roots, args, cur, trail, result, frames,
                   before, calls, requires_grad, locks>>

\* *tensor = value + 1
IncWrite(t) ==
    /\ threads[t].pc = "write"
    /\ cells' = [cells EXCEPT ![threads[t].cell] = threads[t].tmp + 1]
    /\ threads' = [threads EXCEPT ![t].pc = "unlock"]
    /\ UNCHANGED <<modules, iterator, items, nodes, pc, roots, args, cur, trail, result, frames,
                   before, calls, requires_grad, locks>>

\* the guard goes out of scope at the end of the loop body
IncUnlock(t) ==
    /\ threads[t].pc = "unlock"
    /\ locks' = Release(locks, threads[t].cell)
    /\ threads' = [threads EXCEPT
                      ![t].count = @ + 1,
                      ![t].pc = IF threads[t].count + 1 = MaxIncrements
                                THEN "done" ELSE "lock"]
    /\ UNCHANGED <<modules, iterator, items, nodes, cells, pc, roots, args, cur, trail, result, frames,
                   before, calls, requires_grad>>

NextInc ==
    \E t \in Threads :
        \/ IncStart(t)
        \/ IncLock(t)
        \/ IncRead(t)
        \/ IncWrite(t)
        \/ IncUnlock(t)

SpecInc == Init /\ [][NextInc]_vars

\* C12: when the threads have each made their MaxIncrements increments, every
\* cell holds its initial value plus MaxIncrements for each thread that
\* worked on it: twice MaxIncrements more for a cell both threads shared.
C12_NoLostUpdate ==
    (\A t \in Threads : threads[t].pc = "done")
        => \A c \in Cells :
               cells[c] = InitCells[c]
                  + MaxIncrements * Cardinality({t \in Threads : threads[t].cell = c})

C12_Witness ==
    /\ \A t \in Threads : threads[t].pc = "done"
    /\ \E c \in Cells :
           /\ \A t \in Threads : threads[t].cell = c
           /\ cells[c] = InitCells[c] + MaxIncrements + MaxIncrements

----------------------------------------------------------------------------
(* SpecThreads: load run by threads on shared trees, lock by lock.
   held lists the nodes whose entries map the thread holds a read guard of,
   in the order the guards were taken. *)

\* the last n guards taken are dropped
Drop(held, n) == SubSeq(held, 1, Len(held) - n)

\* thread t calls roots[i].load(roots[j].clone()); the guard of
\* state_dict.parameters() of line 140 is taken for the whole loop
ThreadLoadCall(t) ==
    /\ threads[t].pc = "idle"
    /\ Len(roots) = 2
    /\ \E i \in DOMAIN roots, j \in DOMAIN roots :
           /\ i # j
           /\ threads' = [threads EXCEPT
                             ![t].pc = "loop",
                             ![t].stack = <<Frame(nodes, roots[i], roots[j])>>,
                             ![t].held = <<roots[j]>>]
    /\ UNCHANGED <<modules, iterator, items, nodes, cells, pc, roots, args, cur, trail, result, frames,
                   before, calls, requires_grad, locks>>

\* The loop of the innermost call of thread t goes on. With no entry left the
\* call returns: its guard on the source is dropped and, back in the caller,
\* the guard the match of line 141 took. Otherwise the next entry is taken,
\* self.parameters() of line 141 is read-locked and the arm is chosen.
ThreadLoadLoop(t) ==
    /\ threads[t].pc = "loop"
    /\ LET th == threads[t]
           depth == Len(th.stack)
           top == th.stack[depth]
       IN  IF top.todo = {}
           THEN threads' = [threads EXCEPT
                              ![t].stack = SubSeq(th.stack, 1, depth - 1),
                              ![t].held = IF depth = 1 THEN Drop(th.held, 1)
                                          ELSE Drop(th.held, 2),
                              ![t].pc = IF depth = 1 THEN "done" ELSE "loop"]
           ELSE \E key \in top.todo :
                  LET rest == [th.stack EXCEPT ![depth].todo = @ \ {key}]
                      mine == Get(nodes, top.self, key)
                      value == nodes[top.src].parameters[key]
                  IN  IF mine.tag = "Tensor"
                      THEN threads' = [threads EXCEPT
                                         ![t].stack = rest,
                                         ![t].held = Append(th.held, top.self),
                                         ![t].cell = mine.cell,
                                         ![t].tmp = IF value.tag = "Tensor"
                                                    THEN value.cell ELSE 0,
                                         ![t].pc = "lock_tensor"]
                      ELSE IF mine.tag = "ChildStateDict"
                      \* state_dict.child_state_dict(key) is entered and
                      \* takes its own guard of state_dict.parameters()
                      \* (line 129)
                      THEN threads' = [threads EXCEPT
                                         ![t].stack = rest,
                                         ![t].held = th.held \o <<top.self, top.src>>,
                                         ![t].key = key,
                                         ![t].pc = "child_lookup"]
                      ELSE threads' = [threads EXCEPT ![t].stack = rest]
    /\ UNCHANGED <<modules, iterator, items, nodes, cells, pc, roots, args, cur, trail, result, frames,
                   before, calls, requires_grad, locks>>

\* child_state_dict(key) of line 152 returns to thread t and drops its
\* guard: with Ok the recursive load is entered, which takes the guard of the
\* child source's entries (line 140); the unwrap of an Err panics
ThreadChildLookup(t) ==
    /\ threads[t].pc = "child_lookup"
    /\ LET th == threads[t]
           top == th.stack[Len(th.stack)]
           mine == Get(nodes, top.self, th.key)
           r == child_state_dict(nodes, top.src, th.key)
       IN  IF r.kind = "Ok"
           THEN threads' = [threads EXCEPT
                              ![t].stack =
                                  Append(th.stack,
                                         Frame(nodes, Callee(top.self, mine.sd), r.sd)),
                              ![t].held = Append(Drop(th.held, 1), r.sd),
                              ![t].pc = "loop"]
           ELSE threads' = [threads EXCEPT
                              ![t].held = <<>>,
                              ![t].pc = IF r.kind = "Err" THEN "panic"
                                        ELSE "overflow"]
    /\ UNCHANGED <<modules, iterator, items, nodes, cells, pc, roots, args, cur, trail, result, frames,
                   before, calls, requires_grad, locks>>

\* tensor.lock().unwrap() of line 143 returns to thread t: with a poisoned
\* Mutex the unwrap panics; with a source entry that is no Tensor the arm
\* ends and the guards are dropped
ThreadLockTensor(t) ==
    /\ threads[t].pc = "lock_tensor"
    /\ CanLock(locks, threads[t].cell, t)
    /\ LET th == threads[t]
       IN  IF th.cell \in locks.poisoned
           THEN /\ threads' = [threads EXCEPT ![t].pc = "panic", ![t].held = <<>>]
                /\ locks' = locks
           ELSE IF th.tmp = 0
           THEN /\ threads' = [threads EXCEPT ![t].pc = "loop",
                                              ![t].held = Drop(th.held, 1)]
                /\ locks' = locks
           ELSE /\ threads' = [threads EXCEPT ![t].pc = "lock_value"]
                /\ locks' = Acquire(locks, th.cell, t)
    /\ UNCHANGED <<modules, iterator, items, nodes, cells, pc, roots, args, cur, trail, result, frames,
                   before, calls, requires_grad>>

\* value.lock().unwrap() of line 145 by thread t, which holds the guard of
\* its own tensor. On the Mutex it holds itself the call blocks for ever or
\* panics; on a free one it returns, the copy is made and both guards and
\* the read guard of line 141 are dropped.
ThreadLockValue(t) ==
    /\ threads[t].pc = "lock_value"
    /\ LET th == threads[t]
       IN  IF locks.owner[th.tmp] = t
           THEN /\ \/ /\ threads' = [threads EXCEPT ![t].pc = "deadlock"]
                      /\ locks' = locks
                   \/ /\ threads' = [threads EXCEPT ![t].pc = "panic",
                                                     ![t].held = <<>>]
                      /\ locks' = ReleasePoisoned(locks, th.cell)
                /\ UNCHANGED <<modules, iterator, items, cells, requires_grad>>
           ELSE /\ CanLock(locks, th.tmp, t)
                /\ IF th.tmp \in locks.poisoned
                   THEN /\ threads' = [threads EXCEPT ![t].pc = "panic",
                                                      ![t].held = <<>>]
                        /\ locks' = ReleasePoisoned(locks, th.cell)
                        /\ UNCHANGED <<modules, iterator, items, cells, requires_grad>>
                   ELSE /\ cells' = copy_(cells, th.cell, th.tmp)
                        /\ requires_grad' = NoGradCopy(requires_grad, th.cell, th.tmp)
                        /\ locks' = Release(locks, th.cell)
                        /\ threads' = [threads EXCEPT ![t].pc = "loop",
                                                      ![t].held = Drop(th.held, 1)]
    /\ UNCHANGED <<modules, iterator, items, nodes, pc, roots, args, cur, trail, result, frames,
                   before, calls>>

NextThreads ==
    \/ /\ Len(roots) < 2
       /\ FromMapCall(FlatMapsFrom(KeysUpTo(LoadDepth), ThreadKeys, UsedCells))
    \/ \E t \in Threads :
           \/ ThreadLoadCall(t)
           \/ ThreadLoadLoop(t)
           \/ ThreadChildLookup(t)
           \/ ThreadLockTensor(t)
           \/ ThreadLockValue(t)

SpecThreads == Init /\ [][NextThreads]_vars

\* thread t waits in lock() for a Mutex thread u holds
Waits(t, u) ==
    \/ threads[t].pc = "lock_tensor" /\ locks.owner[threads[t].cell] = u
    \/ threads[t].pc = "lock_value" /\ locks.owner[threads[t].tmp] = u

\* C13: a thread never holds the read guard of a node's entries together
\* with a guard, taken later, of the entries of one of that node's children.
C13_LockHierarchy ==
    \A t \in Threads :
        \A i \in DOMAIN threads[t].held, j \in DOMAIN threads[t].held :
            i < j => threads[t].held[j] \notin ChildrenOf(nodes, threads[t].held[i])

\* the cells whose Mutex thread t holds
Owns(t) == {c \in Cells : locks.owner[c] = t}

\* C28: a thread never holds two read guards of one node's entries map.
C28_NoReentrantRead ==
    \A t \in Threads :
        \A i \in DOMAIN threads[t].held, j \in DOMAIN threads[t].held :
            threads[t].held[i] = threads[t].held[j] => i = j

\* C22: a step of a thread that holds the Mutex of a cell takes no read
\* guard of any entries map, a step that takes one leaves the thread
\* holding no Mutex, and a thread about to go on with its loop (the next
\* lookup, recursion or return) holds no Mutex.
C22_NoLookupUnderValueLock ==
    [][\A t \in Threads :
          /\ Owns(t) # {} => Len(threads'[t].held) <= Len(threads[t].held)
          /\ Len(threads'[t].held) > Len(threads[t].held) => Owns(t)' = {}
          /\ threads'[t].pc \in {"loop", "child_lookup", "done"} => Owns(t)' = {}]_vars

C22_Witness ==
    \E t \in Threads :
        /\ threads[t].pc = "loop"
        /\ Len(threads[t].held) >= 1
        /\ Owns(t) = {}
        /\ \E c \in Cells : cells[c] # InitCells[c]
        /\ \A u \in Threads \ {t} : threads[u].pc = "idle"

\* C14: concurrently running load calls all return, so no two of them ever
\* stand each in lock() on a cell the other holds, where neither could go on.
C14_LoadsReturn ==
    \A t \in Threads, u \in Threads :
        ~(t # u /\ Waits(t, u) /\ Waits(u, t))

----------------------------------------------------------------------------
(* SpecDisjoint: a tree roots[1] with two children, and two threads that load
   roots[2] into one child and roots[3] into the other *)

\* the keys of a tree that holds its leaves below children
ChildKeys == {Dotted(s, k) : s \in Segs, k \in KeysUpTo(LoadDepth)}

\* thread 1 calls roots[1].child_state_dict(x).unwrap().load(roots[2].clone())
\* and thread 2 roots[1].child_state_dict(y).unwrap().load(roots[3].clone()),
\* x # y; each takes the guard of its source's entries (line 140)
DisjointLoadCall ==
    /\ Len(roots) = 3
    /\ \A t \in Threads : threads[t].pc = "idle"
    /\ \E x \in Segs, y \in Segs :
           LET cx == child_state_dict(nodes, roots[1], x)
               cy == child_state_dict(nodes, roots[1], y)
           IN  /\ x # y
               /\ cx.kind = "Ok"
               /\ cy.kind = "Ok"
               /\ threads' = [t \in Threads |->
                                 [threads[t] EXCEPT
                                    !.pc = "loop",
                                    !.stack = <<Frame(nodes,
                                                      IF t = 1 THEN cx.sd ELSE cy.sd,
                                                      roots[t + 1])>>,
                                    !.held = <<roots[t + 1]>>]]
               /\ before' = [cells |-> cells, nodes |-> nodes,
                             requires_grad |-> requires_grad]
    /\ UNCHANGED <<modules, iterator, items, nodes, cells, pc, roots, args, cur, trail, result, frames,
                   calls, requires_grad, locks>>

NextDisjoint ==
    \/ roots = <<>> /\ FromMapCall(FlatMaps(ChildKeys, 2))
    \/ /\ Len(roots) \in {1, 2}
       /\ FromMapCall(FlatMapsFrom(KeysUpTo(LoadDepth), ThreadKeys, UsedCells))
    \/ DisjointLoadCall
    \/ \E t \in Threads :
           \/ ThreadLoadLoop(t)
           \/ ThreadChildLookup(t)
           \/ ThreadLockTensor(t)
           \/ ThreadLockValue(t)

SpecDisjoint == Init /\ [][NextDisjoint]_vars

\* C23: two loads into different children of one tree, from sources that
\* share no cell with each other, both return: neither thread stops in a
\* lock() that cannot return or panics, and the two never stand each in
\* lock() on a cell the other holds.
C23_DisjointLoads ==
    (/\ Len(roots) = 3
     /\ CellsOf(nodes, roots[2]) \cap CellsOf(nodes, roots[3]) = {})
        => /\ \A t \in Threads : threads[t].pc \notin {"deadlock", "panic", "overflow"}
           /\ ~(Waits(1, 2) /\ Waits(2, 1))

----------------------------------------------------------------------------
(* SpecAppend: threads that call append_child on handles of nodes made by
   StateDict::new; the call takes child.parent's write lock, writes, drops it
   (line 100) and only then takes self.parameters' write lock (lines 101-104) *)

\* append_child calls one thread makes
MaxAppends == 1

\* thread t calls roots[i].append_child(module_name, roots[j].clone()) and
\* runs line 100: the child's back-reference is written
ThreadAppendParent(t) ==
    /\ threads[t].pc = "idle"
    /\ threads[t].count < MaxAppends
    /\ \E self \in Handles, child \in Handles, module_name \in Segs :
           /\ nodes' = Sweep([nodes EXCEPT ![child].parent = Downgrade(self)],
                             Handles)
           /\ threads' = [threads EXCEPT
                             ![t].pc = "insert",
                             ![t].count = @ + 1,
                             ![t].key = module_name,
                             ![t].stack = <<[self |-> self, child |-> child]>>]
    /\ UNCHANGED <<modules, iterator, items, cells, pc, roots, args, cur, trail, result, frames, before,
                   calls, requires_grad, locks>>

\* thread t runs lines 101-104 of its call: the child is inserted and the
\* call returns
ThreadAppendInsert(t) ==
    /\ threads[t].pc = "insert"
    /\ LET call == threads[t].stack[1]
       IN  nodes' = Sweep([nodes EXCEPT ![call.self].parameters =
                              Insert(@, threads[t].key, ChildStateDict(call.child))],
                          Handles)
    /\ threads' = [threads EXCEPT ![t].pc = "idle", ![t].stack = <<>>,
                                  ![t].key = <<>>]
    /\ UNCHANGED <<modules, iterator, items, cells, pc, roots, args, cur, trail, result, frames, before,
                   calls, requires_grad, locks>>

NextAppend ==
    \/ calls < MaxCalls /\ NewCall
    \/ \E t \in Threads :
           \/ ThreadAppendParent(t)
           \/ ThreadAppendInsert(t)

SpecAppend == Init /\ [][NextAppend]_vars

\* C25: at every moment of concurrently running append_child calls, a node
\* whose back-reference resolves is held by an entry of the node it resolves
\* to.
C25_AtomicAppend ==
    \A n \in DOMAIN nodes :
        (nodes[n].alive /\ Upgrade(nodes, n) # NoParent)
            => n \in ChildrenOf(nodes, Upgrade(nodes, n))

----------------------------------------------------------------------------
(* Properties of load: aliased cells, the source *)

\* C27: when load visits an entry that is a leaf in the target and in the
\* source and both hold the very same cell, the call goes on (to the next
\* entry or to its return): the thread does not stop in lock().
C27_AliasedLoadReturns ==
    (/\ result.op = "load_entry"
     /\ Get(nodes, result.node, result.key).tag = "Tensor"
     /\ Get(nodes, result.src, result.key) = Get(nodes, result.node, result.key))
        => pc \in {"loading", "done"}

\* C29: after T.load(S) with T and S sharing no cells, S and every node
\* below it have the entries, tags, cells and back-references they had, and
\* every cell of S the value it had.
C29_SourceUnchanged ==
    (pc = "done" /\ CellsOf(nodes, roots[1]) \cap CellsOf(nodes, roots[2]) = {})
        => /\ \A n \in Below(nodes, {roots[2]}) : nodes[n] = before.nodes[n]
           /\ Below(nodes, {roots[2]}) = Below(before.nodes, {roots[2]})
           /\ \A c \in CellsOf(before.nodes, roots[2]) : cells[c] = before.cells[c]

C29_Witness ==
    /\ pc = "done"
    /\ CellsOf(nodes, roots[1]) \cap CellsOf(nodes, roots[2]) = {}
    /\ Cardinality(CellsOf(nodes, roots[2])) = LoadKeys
    /\ \A s \in Leaves(nodes, roots[2]) :
           /\ cells[s[2]] = before.cells[s[2]]
           /\ \E t \in Leaves(nodes, roots[1]) :
                  /\ t[1] = s[1]
                  /\ cells[t[2]] = cells[s[2]]
                  /\ before.cells[t[2]] # cells[t[2]]

----------------------------------------------------------------------------
(* Properties of load: identity of cells, trainability *)

\* C15: while and after T.load(S) runs, T and S hold the entries, tags and
\* cells they held before; once it has returned, a cell handle taken from T
\* before the call (by tensor() or to_map()) is the cell T holds under that
\* path, so it shows the value T has there, which for a matched path whose
\* cell T holds under no other matched path (T and S sharing no cell) is
\* the value S had.
C15_LoadKeepsCells ==
    (pc \in {"loading", "done"})
        => /\ nodes = before.nodes
           /\ pc = "done" =>
                \A h \in Leaves(before.nodes, roots[1]) :
                    /\ \A m \in to_map(nodes, roots[1]) :
                           /\ m.kind = "Ok"
                           /\ h[1] \in DOMAIN m.map
                           /\ m.map[h[1]] = h[2]
                    /\ Len(Split(h[1])) = 1 =>
                           tensor(nodes, roots[1], h[1]) = [kind |-> "Ok", cell |-> h[2]]
                    /\ (/\ CellsOf(nodes, roots[1]) \cap CellsOf(nodes, roots[2]) = {}
                        /\ h[1] \in Matched
                        /\ \A u \in Leaves(nodes, roots[1]) :
                               (u[2] = h[2] /\ u[1] \in Matched) => u = h)
                          => \A s \in Leaves(before.nodes, roots[2]) :
                                 s[1] = h[1] => cells[h[2]] = before.cells[s[2]]

C15_Witness ==
    /\ pc = "done"
    /\ nodes = before.nodes
    /\ CellsOf(nodes, roots[1]) \cap CellsOf(nodes, roots[2]) = {}
    /\ \E h \in Leaves(before.nodes, roots[1]), s \in Leaves(before.nodes, roots[2]) :
           /\ s[1] = h[1]
           /\ Len(Split(h[1])) = LoadDepth
           /\ cells[h[2]] = before.cells[s[2]]
           /\ cells[h[2]] # before.cells[h[2]]

\* C16: while and after T.load(S) runs, every leaf of T (every tensor, in
\* fact) has the requires_grad it had before the call, whatever the flag of
\* the source leaf copied into it.
C16_LoadKeepsRequiresGrad ==
    (pc # "idle")
        => \A c \in Cells : requires_grad[c] = before.requires_grad[c]

C16_Witness ==
    /\ pc = "done"
    /\ \E t \in Leaves(nodes, roots[1]), s \in Leaves(nodes, roots[2]) :
           /\ t[1] = s[1]
           /\ cells[t[2]] = before.cells[s[2]]
           /\ cells[t[2]] # before.cells[t[2]]
           /\ ~requires_grad[t[2]]
           /\ requires_grad[s[2]]

----------------------------------------------------------------------------
(* Properties of Display *)

RECURSIVE SameTree(_, _, _, _)
\* nodes n and m hold the same names, with the same tags, equal leaf values
\* and, recursively, the same children
SameTree(heap, cellsv, n, m) ==
    /\ DOMAIN heap[n].parameters = DOMAIN heap[m].parameters
    /\ \A k \in DOMAIN heap[n].parameters :
           LET x == heap[n].parameters[k]
               y == heap[m].parameters[k]
           IN  /\ x.tag = y.tag
               /\ x.tag = "Tensor" => cellsv[x.cell] = cellsv[y.cell]
               /\ x.tag = "ChildStateDict" => SameTree(heap, cellsv, x.sd, y.sd)

\* C18: the text Display gave for a tree is the text Display gives for any
\* tree with the same names, tags and leaf values at every level (that tree
\* itself included), in whatever order the entries of either come out of
\* their HashMaps.
C18_DeterministicRendering ==
    (result.op = "display")
        => /\ result.ret.kind = "Ok"
           /\ \A j \in DOMAIN roots :
                  SameTree(nodes, cells, result.node, roots[j])
                      => \A o \in Display(nodes, cells, roots[j]) : o = result.ret

C18_Witness ==
    /\ result.op = "display"
    /\ result.node = roots[1]
    /\ SameTree(nodes, cells, roots[1], roots[2])
    /\ CellsOf(nodes, roots[1]) \cap CellsOf(nodes, roots[2]) = {}
    /\ \E n \in DOMAIN nodes :
           /\ n # roots[1]
           /\ Upgrade(nodes, n) = roots[1]
           /\ Cardinality(DOMAIN nodes[n].parameters) = LoadKeys

----------------------------------------------------------------------------
(* Properties of to_vec *)

\* C30: on a tree assembled by from_map and append_child, to_map() returns
\* a map with one key for each leaf entry below the node: as many keys as
\* to_vec() has elements.
C30_ExportInjective ==
    result.op = "to_map" =>
        /\ result.ret.kind = "Ok"
        /\ \A v \in to_vec(nodes, result.node) :
               /\ v.kind = "Ok"
               /\ Len(v.vec) = Cardinality(DOMAIN result.ret.map)

\* C17: on a tree built by from_map from a map with pairwise distinct cells,
\* to_vec() returns a vector that holds every leaf cell below the node once
\* and nothing else: as many elements as to_map() has keys, and the cells
\* to_map() has as values.
C17_ToVecOnce ==
    (/\ result.op = "to_vec"
     /\ BuiltByFromMap
     /\ \A k1 \in DOMAIN args[1], k2 \in DOMAIN args[1] :
            args[1][k1] = args[1][k2] => k1 = k2)
        => /\ result.ret.kind = "Ok"
           /\ \A i \in DOMAIN result.ret.vec, j \in DOMAIN result.ret.vec :
                  result.ret.vec[i] = result.ret.vec[j] => i = j
           /\ Range(result.ret.vec) = CellsOf(nodes, result.node)
           /\ \A m \in to_map(nodes, result.node) :
                  /\ m.kind = "Ok"
                  /\ Range(result.ret.vec) = {m.map[k] : k \in DOMAIN m.map}
                  /\ Len(result.ret.vec) = Cardinality(DOMAIN m.map)

C17_Witness ==
    /\ result.op = "to_vec"
    /\ BuiltByFromMap
    /\ result.ret.kind = "Ok"
    /\ Len(result.ret.vec) = MaxKeys
    /\ Cardinality(Range(result.ret.vec)) = MaxKeys
    /\ \E k \in DOMAIN args[1] : Len(Split(k)) = MaxDepth
    /\ \E k \in DOMAIN args[1] : Len(Split(k)) = 1

----------------------------------------------------------------------------
(* SimpleDataset and DatasetIterator *)

\* usize has UsizeBits bits
UsizeBits == 3

Usize == 2 ^ UsizeBits

\* the longest vectors and the largest size of a dataset
MaxSize == 3

\* calls of next() made on one iterator
MaxNexts == 5

\* a + b on usize: a sum that does not fit panics in a build with overflow
\* checks and wraps in one without
AddUsize(a, b) ==
    IF a + b < Usize THEN {[kind |-> "Ok", val |-> a + b]}
    ELSE {[kind |-> "Panic"], [kind |-> "Ok", val |-> (a + b) % Usize]}

\* the left argument, whatever the right one is
MinLeft(a, b) == a

\* std::cmp::min
min(a, b) == IF a <= b THEN a ELSE b

\* v[start..end].to_vec(), indices counted from 0: the slice panics when
\* start > end or end > v.len()
Slice(v, start, end) ==
    IF start > end \/ end > Len(v) THEN [kind |-> "Panic"]
    ELSE [kind |-> "Ok", vec |-> SubSeq(v, start + 1, end)]

None == [kind |-> "None"]

Some(batch, batch_labels) ==
    [kind |-> "Some", batch |-> batch, batch_labels |-> batch_labels]

Panic == [kind |-> "Panic"]

\* SimpleDataset::iter
iter(dataset) == [dataset |-> dataset, index |-> 0]

\* DatasetIterator::next on the iterator it: what it returns and the index
\* it leaves
next(it) ==
    IF it.index >= it.dataset.size
    THEN {[item |-> None, index |-> it.index]}
    ELSE UNION {
           IF sum.kind = "Panic"
           THEN {[item |-> Panic, index |-> it.index]}
           ELSE LET end == min(sum.val, it.dataset.size)
                    batch == Slice(it.dataset.inputs, it.index, end)
                    batch_labels == Slice(it.dataset.labels, it.index, end)
                IN  IF batch.kind = "Panic" \/ batch_labels.kind = "Panic"
                    THEN {[item |-> Panic, index |-> it.index]}
                    ELSE {[item |-> Some(batch.vec, batch_labels.vec),
                           index |-> end]} :
           sum \in AddUsize(it.index, it.dataset.batch_size)}

\* SimpleDataset values: the fields are public, so size need not be the
\* length of either vector
Datasets ==
    {[inputs |-> [i \in 1..n |-> [input |-> i - 1]],
      labels |-> [i \in 1..m |-> [label |-> i - 1]],
      size |-> size,
      batch_size |-> batch_size] :
        n \in 0..MaxSize, m \in 0..MaxSize, size \in 0..MaxSize,
        batch_size \in 0..(Usize - 1)}

\* let mut iterator = dataset.iter(), for any dataset
InitData ==
    /\ InitTrees
    /\ iterator \in {iter(dataset) : dataset \in Datasets}
    /\ items = <<>>
    /\ modules = <<>>

\* iterator.next(); a panic unwinds the caller, which makes no further call
NextCall ==
    /\ Len(items) < MaxNexts
    /\ IF items = <<>> THEN TRUE ELSE items[Len(items)].kind # "Panic"
    /\ \E r \in next(iterator) :
           /\ iterator' = [iterator EXCEPT !.index = r.index]
           /\ items' = Append(items, r.item)
    /\ UNCHANGED <<modules, nodes, cells, pc, roots, args, cur, trail, result, frames,
                   before, calls, requires_grad, threads, locks>>

NextData == NextCall

SpecData == InitData /\ [][NextData]_vars

\* the dataset's size is the length of both its vectors and its batches are
\* not empty
Consistent(dataset) ==
    /\ dataset.size = Len(dataset.inputs)
    /\ dataset.size = Len(dataset.labels)
    /\ dataset.batch_size >= 1

\* C33: for a dataset whose size is the length of inputs and of labels and
\* whose batch_size is at least 1, the i-th call of next() returns the inputs
\* and the labels of the indices (i-1)*batch_size up to (not including)
\* i*batch_size, cut at size, as long as that range is not empty, and None
\* from then on.
C33_BatchesPartition ==
    LET d == iterator.dataset
    IN  Consistent(d) =>
            \A i \in DOMAIN items :
                LET lo == (i - 1) * d.batch_size
                    hi == IF i * d.batch_size <= d.size THEN i * d.batch_size
                          ELSE d.size
                IN  IF lo < d.size
                    THEN items[i] = Some(SubSeq(d.inputs, lo + 1, hi),
                                         SubSeq(d.labels, lo + 1, hi))
                    ELSE items[i] = None

C33_Witness ==
    /\ Consistent(iterator.dataset)
    /\ iterator.dataset.size = MaxSize
    /\ Len(items) >= 4
    /\ items[1].kind = "Some" /\ Len(items[1].batch) = iterator.dataset.batch_size
    /\ items[2].kind = "Some" /\ Len(items[2].batch) < iterator.dataset.batch_size
    /\ items[3] = None
    /\ items[4] = None

\* C34: every call of next() that returns Some leaves the index larger than
\* it found it, so None is reached after at most size calls.
C34_IndexIncreases ==
    [][(/\ Len(items') > Len(items)
        /\ items'[Len(items')].kind = "Some")
           => iterator'.index > iterator.index]_vars

----------------------------------------------------------------------------
(* Sequential: the state tree of a vector of modules *)

\* the modules of the longest Sequential
MaxModules == 11

\* the modules of a Sequential that hold a parameter
MaxParameterModules == 2

\* a usize written with its last digit only
ToStringLastDigit(i) == <<Digits[(i % Len(Digits)) + 1]>>

RECURSIVE to_string(_)
\* i.to_string() of a usize: its decimal digits
to_string(i) ==
    IF i < Len(Digits) THEN <<Digits[i + 1]>>
    ELSE to_string(i \div Len(Digits)) \o <<Digits[(i % Len(Digits)) + 1]>>

\* module.trainable_parameters() of a module that is no Sequential: a new
\* state tree that holds the module's cells under their names, with no entry
\* for a NonParameterModule
ModuleParameters(heap, module) ==
    [heap |-> Append(heap, [NewData EXCEPT !.parameters =
                               [k \in DOMAIN module |-> Tensor(module[k])]]),
     root |-> Len(heap) + 1]

\* Sequential::trainable_parameters on the modules ms
trainable_parameters(heap, ms) ==
    LET state_dict == Len(heap) + 1
        RECURSIVE Loop(_, _)
        Loop(i, h) ==
            IF i >= Len(ms) THEN h
            ELSE LET child == ModuleParameters(h, ms[i + 1])
                 IN  Loop(i + 1, append_child(child.heap, state_dict,
                                              to_string(i), child.root))
    IN  [heap |-> Loop(0, Append(heap, NewData)), root |-> state_dict]

\* The vectors given to Sequential::from: up to MaxModules modules, of which
\* up to MaxParameterModules hold one cell under one name, and the others
\* none. Cells being opaque identities, a module holds a cell an earlier
\* module holds or the next fresh one.
ModuleLists ==
    LET Ascending(P) == CHOOSE o \in Perms(P) :
                            \A x \in 1..Len(o), y \in 1..Len(o) : x < y => o[x] < o[y]
        With(n, P) ==
            {[i \in 1..n |->
                 IF i \in P
                 THEN [k \in {name[i]} |->
                         a[CHOOSE j \in 1..Len(Ascending(P)) : Ascending(P)[j] = i]]
                 ELSE EmptyMap] :
                   name \in [P -> Segs], a \in Assignments(Ascending(P), 0)}
        OfLength(n) ==
            UNION {With(n, P) : P \in SubsetsUpTo(1..n, MaxParameterModules)}
    IN  UNION {OfLength(n) : n \in 0..MaxModules}

\* let model = Sequential::from(modules), for any vector of modules
InitSequential ==
    /\ InitTrees
    /\ iterator = NoIterator
    /\ items = <<>>
    /\ modules \in ModuleLists

\* let t = model.trainable_parameters()
TrainableParametersCall ==
    /\ roots = <<>>
    /\ LET r == trainable_parameters(nodes, modules)
       IN  /\ nodes' = Sweep(r.heap, HandlesOf(Append(roots, r.root), r.root))
           /\ roots' = Append(roots, r.root)
           /\ args' = Append(args, EmptyMap)
           /\ cur' = r.root
           /\ result' = [op |-> "trainable_parameters", node |-> r.root]
    /\ UNCHANGED <<cells, pc, trail, frames, before, calls, requires_grad,
                   threads, locks, iterator, items, modules>>

\* the cells the modules hold
ModuleCells == UNION {{modules[i][k] : k \in DOMAIN modules[i]} : i \in DOMAIN modules}

\* the flat keys "i.name" of the parameters a Sequential can hold
SequentialKeys ==
    {Dotted(to_string(i), name) : i \in 0..(MaxModules - 1), name \in Segs}

NextSequential ==
    \/ TrainableParametersCall
    \/ /\ Len(roots) = 1
       /\ FromMapCall(FlatMapsFrom(SequentialKeys, 1, Cardinality(ModuleCells)))
    \/ LoadCall
    \/ LoadStep

SpecSequential == InitSequential /\ [][NextSequential]_vars

\* the decimal numeral of an index below 100
Numeral(i) ==
    IF i < 10 THEN <<Digits[i + 1]>>
    ELSE <<Digits[(i \div 10) + 1], Digits[(i % 10) + 1]>>

\* C31: the tree t returned for n modules has n entries, under the numerals of
\* 0 .. n-1; the entry under i is a child with back-reference t whose entries
\* are the cells of the i-th module under their names (none for a module
\* without parameters); t flattens to the keys "i.name"; and after a flat map
\* with a key "i.name" is loaded into t, the i-th module's cell under name
\* holds the value loaded.
C31_SequentialNaming ==
    Len(roots) >= 1 =>
        LET t == roots[1]
            n == Len(modules)
        IN  /\ DOMAIN nodes[t].parameters = {Numeral(i) : i \in 0..(n - 1)}
            /\ Cardinality(DOMAIN nodes[t].parameters) = n
            /\ \A i \in 0..(n - 1) :
                   LET e == nodes[t].parameters[Numeral(i)]
                   IN  /\ e.tag = "ChildStateDict"
                       /\ Upgrade(nodes, e.sd) = t
                       /\ nodes[e.sd].parameters =
                              [k \in DOMAIN modules[i + 1] |->
                                  Tensor(modules[i + 1][k])]
            /\ Leaves(nodes, t) =
                   UNION {{<<Dotted(Numeral(i), k), modules[i + 1][k]>> :
                              k \in DOMAIN modules[i + 1]} :
                          i \in 0..(n - 1)}
            /\ pc = "done" =>
                   \A i \in 0..(n - 1) : \A k \in DOMAIN modules[i + 1] :
                       Dotted(Numeral(i), k) \in DOMAIN args[2] =>
                           cells[modules[i + 1][k]] =
                               before.cells[args[2][Dotted(Numeral(i), k)]]

C31_Witness ==
    /\ pc = "done"
    /\ Len(modules) = MaxModules
    /\ modules[1] = EmptyMap
    /\ \E k \in DOMAIN modules[MaxModules] :
           /\ Dotted(Numeral(MaxModules - 1), k) \in DOMAIN args[2]
           /\ cells[modules[MaxModules][k]] # before.cells[modules[MaxModules][k]]

----------------------------------------------------------------------------
(* Trainable: training_parameters, freeze, unfreeze *)

\* a filter that keeps every tensor
FilterAll(vec, flags) == vec

\* .into_iter().filter(|tensor| tensor.lock().requires_grad()).collect()
filter(vec, flags) == SelectSeq(vec, LAMBDA c : flags[c])

\* Trainable::training_parameters on the module whose state tree is node n:
\* the vectors it can return, or no return when to_vec() has none
training_parameters(heap, flags, n) ==
    {IF r.kind = "Ok" THEN [kind |-> "Ok", vec |-> filter(r.vec, flags)] ELSE r :
        r \in to_vec(heap, n)}

\* roots[i].training_parameters()
TrainingParametersCall ==
    /\ pc = "idle"
    /\ Len(roots) = 2
    /\ \E i \in DOMAIN roots :
       \E r \in training_parameters(nodes, requires_grad, roots[i]) :
           result' = [op |-> "training_parameters", node |-> roots[i], ret |-> r]
    /\ UNCHANGED <<nodes, cells, pc, roots, args, cur, trail, frames, before,
                   calls, requires_grad, threads, locks, iterator, items, modules>>

\* Trainable::unfreeze on the module whose parameters are the tree roots[i]:
\* every tensor of its to_vec() gets requires_grad true
UnfreezeCall ==
    /\ pc = "idle"
    /\ Len(roots) = 2
    /\ \E i \in DOMAIN roots :
       \E r \in to_vec(nodes, roots[i]) :
           /\ r.kind = "Ok"
           /\ requires_grad' =
                  [c \in Cells |-> c \in Range(r.vec) \/ requires_grad[c]]
           /\ requires_grad' # requires_grad
           /\ result' = [op |-> "unfreeze", node |-> roots[i]]
    /\ UNCHANGED <<nodes, cells, pc, roots, args, cur, trail, frames, before,
                   calls, threads, locks, iterator, items, modules>>

NextFreeze ==
    \/ Len(roots) < 2 /\ FromMapCall(FlatMapsFrom(KeysUpTo(LoadDepth), LoadKeys, UsedCells))
    \/ FreezeCall
    \/ UnfreezeCall
    \/ TrainingParametersCall

SpecFreeze == Init /\ [][NextFreeze]_vars

\* C32: training_parameters() returns the leaf cells of the tree whose
\* requires_grad is true, each as often as to_vec() holds it; right after
\* freeze() it returns none and right after unfreeze() all of to_vec(); and
\* freeze() and unfreeze() leave every tree, and so the cells it holds, as
\* they were.
C32_FreezeUnfreeze ==
    [][/\ result'.op = "training_parameters" =>
              /\ result'.ret.kind = "Ok"
              /\ Range(result'.ret.vec) =
                     {c \in CellsOf(nodes', result'.node) : requires_grad'[c]}
              /\ \E v \in to_vec(nodes', result'.node) :
                     \A c \in Range(result'.ret.vec) :
                         Cardinality({j \in DOMAIN result'.ret.vec :
                                         result'.ret.vec[j] = c})
                             = Cardinality({j \in DOMAIN v.vec : v.vec[j] = c})
       /\ result'.op = "freeze" =>
              \A r \in training_parameters(nodes', requires_grad', result'.node) :
                  r.kind = "Ok" /\ r.vec = <<>>
       /\ result'.op = "unfreeze" =>
              training_parameters(nodes', requires_grad', result'.node)
                  = to_vec(nodes', result'.node)
       /\ requires_grad' # requires_grad =>
              /\ nodes' = nodes
              /\ \A i \in DOMAIN roots :
                     /\ roots'[i] = roots[i]
                     /\ CellsOf(nodes', roots'[i]) = CellsOf(nodes, roots[i])
                     /\ to_vec(nodes', roots'[i]) = to_vec(nodes, roots[i])]_vars

C32_Witness ==
    /\ result.op = "training_parameters"
    /\ result.ret.kind = "Ok"
    /\ result.ret.vec # <<>>
    /\ \E c \in CellsOf(nodes, result.node) : ~requires_grad[c]
    /\ \E c \in Cells : requires_grad[c] /\ c \notin CellsOf(nodes, result.node)

====
